---- MODULE Spec2Model ----
(***************************************************************************)
(* Documentation Semantic Index of tauri-rustdocs-candle: the two request  *)
(* surfaces (Tauri commands, MCP server) over the shared project store     *)
(* (AppState.processed_projects) and the global embedder (GLOBAL_EMBEDDER).*)
(***************************************************************************)
EXTENDS Integers, Sequences, FiniteSets, TLC

\* ------------------------------------------------------------------ bounds
\* Number of concurrently running handler tasks.
NumTasks == 2
\* Number of calls the callers issue in one run.
MaxCalls == 3

Tasks == 1..NumTasks
\* The value of a mutex nobody holds.
NoTask == CHOOSE n \in 0..NumTasks : n \notin Tasks
\* An absent JSON field, a None string.
Null == "null"
\* An absent root id, a None number.
NoId == 0 - 1
NoNum == 0 - 1

\* ------------------------------------------------------------ input domain
\* Project directories that exist on disk, and one path that does not.
Projects == {"pA", "pB"}
MissingPath == "nodir"
IngestPaths == Projects \cup {MissingPath}
\* Arguments of a query: no filter or the filter pA (ingested or not when
\* the query runs), one text, num_results absent or 1.
QueryFilters == {Null, "pA"}
QueryTexts == {"d1"}
NumResultsArgs == {NoNum, 1}
Surfaces == {"cmd", "mcp"}

\* Strings whose trim() is empty.
WhitespaceOnly == {"", " "}

\* ------------------------------------------------------- raw rustdoc trees
\* A raw item record of the "index" section; a missing JSON field is Null.
RawItem(name, docs, kind, stripped) ==
    [name |-> name, docs |-> docs, kind |-> kind, is_stripped |-> stripped]

\* A raw tree: has_index/has_paths say whether the section is a JSON object,
\* root is the root id (Null when absent or not a string).
Tree1 ==
    [ has_index |-> TRUE, has_paths |-> TRUE, root |-> 0,
      index |-> (0 :> RawItem("k", Null, "module", FALSE)
              @@ 1 :> RawItem("hello", "d1", "function", FALSE)
              @@ 2 :> RawItem("S", " ", "struct", FALSE)),
      paths |-> (0 :> <<>> @@ 1 :> <<"a">> @@ 2 :> <<>>) ]

Tree2 ==
    [ has_index |-> TRUE, has_paths |-> TRUE, root |-> 0,
      index |-> (0 :> RawItem("k", Null, "module", FALSE)
              @@ 1 :> RawItem("hello", "doc2", "function", FALSE)
              @@ 3 :> RawItem("bye", "d1", "function", TRUE)),
      paths |-> (0 :> <<>> @@ 1 :> <<"a">> @@ 3 :> <<>>) ]

Tree3 ==
    [ has_index |-> TRUE, has_paths |-> TRUE, root |-> 0,
      index |-> (0 :> RawItem("k", Null, "module", FALSE)
              @@ 1 :> RawItem("a", "doc2", "module", FALSE)
              @@ 2 :> RawItem(Null, "d1", "function", FALSE)),
      paths |-> (0 :> <<>> @@ 1 :> <<"a">> @@ 2 :> <<"a">>) ]

TreeNoPaths ==
    [ has_index |-> TRUE, has_paths |-> FALSE, root |-> 0,
      index |-> (0 :> RawItem("k", Null, "module", FALSE)),
      paths |-> <<>> ]

\* What `cargo rustdoc` can produce for each project directory.
ProjectTrees(p) ==
    IF p = "pA" THEN {Tree1, Tree2} ELSE {Tree3, TreeNoPaths}

\* Package name read from the project's Cargo.toml (hyphens replaced).
determined_crate_name(p) == "k"

\* A path of the output directory at which no file exists (reading it fails).
NoFile == [has_index |-> FALSE, has_paths |-> FALSE, root |-> NoId,
           index |-> <<>>, paths |-> <<>>]
OutputFiles == {determined_crate_name(p) \o ".json" : p \in Projects}

\* ---------------------------------------------------------- normalizer
Last(s) == s[Len(s)]

RECURSIVE Join(_, _)
Join(parts, sep) ==
    IF Len(parts) = 0 THEN ""
    ELSE IF Len(parts) = 1 THEN parts[1]
    ELSE parts[1] \o sep \o Join(Tail(parts), sep)

\* Mutant: the module path is left out of the full path.
FullPathParts_NoModulePath(crate_name, raw, path_array) ==
    IF raw.name # Null THEN <<crate_name, raw.name>> ELSE <<crate_name>>

\* Mutant: the name is appended for modules as for every other kind.
FullPathParts_AlwaysAppend(crate_name, raw, path_array) ==
    IF raw.name # Null THEN <<crate_name>> \o path_array \o <<raw.name>>
    ELSE <<crate_name>> \o path_array

\* The full path of one raw record, lines 217-233.
FullPathParts(crate_name, raw, path_array) ==
    LET base == <<crate_name>> \o path_array
    IN IF raw.name # Null
          /\ (raw.kind # "module"
              \/ ~(Len(path_array) > 0 /\ Last(path_array) = raw.name))
       THEN Append(base, raw.name)
       ELSE base

MakeDocItem(item_id, crate_name, raw, path_array) ==
    [ id |-> item_id,
      crate_name |-> crate_name,
      name |-> raw.name,
      path |-> path_array,
      description |-> raw.docs,
      item_type |-> IF raw.kind = Null THEN "unknown" ELSE raw.kind,
      full_path_str |-> Join(FullPathParts(crate_name, raw, path_array), "::") ]

\* The ids of a map in the iteration order of serde_json's Map (sorted keys).
RECURSIVE SortedIds(_)
SortedIds(S) ==
    IF S = {} THEN <<>>
    ELSE LET m == CHOOSE x \in S : \A y \in S : x <= y
         IN <<m>> \o SortedIds(S \ {m})

\* Mutant: a record without a name is inserted under the path of its module.
RECURSIVE InsertItems_KeepUnnamed(_, _, _, _)
InsertItems_KeepUnnamed(items_map, ids, tree, crate_name) ==
    IF Len(ids) = 0 THEN items_map
    ELSE LET item_id == Head(ids)
             raw == tree.index[item_id]
             path_array == IF item_id \in DOMAIN tree.paths
                           THEN tree.paths[item_id] ELSE <<>>
             item == MakeDocItem(item_id, crate_name, raw, path_array)
             next_map == [k \in DOMAIN items_map \cup {item.full_path_str} |->
                            IF k = item.full_path_str THEN item ELSE items_map[k]]
         IN InsertItems_KeepUnnamed(next_map, Tail(ids), tree, crate_name)

\* Mutant: the `continue` for stripped records is active.
RECURSIVE InsertItems_SkipStripped(_, _, _, _)
InsertItems_SkipStripped(items_map, ids, tree, crate_name) ==
    IF Len(ids) = 0 THEN items_map
    ELSE LET item_id == Head(ids)
             raw == tree.index[item_id]
             path_array == IF item_id \in DOMAIN tree.paths
                           THEN tree.paths[item_id] ELSE <<>>
             item == MakeDocItem(item_id, crate_name, raw, path_array)
             next_map == IF raw.name # Null /\ ~raw.is_stripped
                         THEN [k \in DOMAIN items_map \cup {item.full_path_str} |->
                                 IF k = item.full_path_str THEN item ELSE items_map[k]]
                         ELSE items_map
         IN InsertItems_SkipStripped(next_map, Tail(ids), tree, crate_name)

\* items_map after inserting the records of `ids` in order (a later insert
\* under the same key replaces the earlier one).
RECURSIVE InsertItems(_, _, _, _)
InsertItems(items_map, ids, tree, crate_name) ==
    IF Len(ids) = 0 THEN items_map
    ELSE LET item_id == Head(ids)
             raw == tree.index[item_id]
             path_array == IF item_id \in DOMAIN tree.paths
                           THEN tree.paths[item_id] ELSE <<>>
             item == MakeDocItem(item_id, crate_name, raw, path_array)
             next_map == IF raw.name # Null
                         THEN [k \in DOMAIN items_map \cup {item.full_path_str} |->
                                 IF k = item.full_path_str THEN item ELSE items_map[k]]
                         ELSE items_map
         IN InsertItems(next_map, Tail(ids), tree, crate_name)

EmptyMap == [k \in {} |-> Null]
ParseError == [ok |-> FALSE]

\* Mutant: a root id that is no key of the index gives an unnamed crate
\* instead of an error.
parse_rustdoc_json_file_NoRootCheck(tree) ==
    IF ~tree.has_index \/ ~tree.has_paths \/ tree.root = NoId
    THEN ParseError
    ELSE LET crate_name == IF tree.root \notin DOMAIN tree.index
                              \/ tree.index[tree.root].name = Null
                           THEN "unknown_crate"
                           ELSE tree.index[tree.root].name
         IN [ ok |-> TRUE,
              crate_name |-> crate_name,
              items |-> InsertItems(EmptyMap, SortedIds(DOMAIN tree.index),
                                    tree, crate_name) ]

parse_rustdoc_json_file(tree) ==
    IF ~tree.has_index \/ ~tree.has_paths \/ tree.root = NoId
       \/ tree.root \notin DOMAIN tree.index
    THEN ParseError
    ELSE LET root_item == tree.index[tree.root]
             crate_name == IF root_item.name = Null THEN "unknown_crate"
                           ELSE root_item.name
         IN [ ok |-> TRUE,
              crate_name |-> crate_name,
              items |-> InsertItems(EmptyMap, SortedIds(DOMAIN tree.index),
                                    tree, crate_name) ]

\* parse_rustdoc_json_file on every tree that generate_rustdoc_json can write,
\* computed once.
ParsedFile ==
    [tree \in UNION {ProjectTrees(p) : p \in Projects} |->
        parse_rustdoc_json_file(tree)]

\* ------------------------------------------------------ embedding provider
\* The text embedded for one item by each surface.
EmbedText(surface, doc_item) ==
    IF surface = "cmd"
    THEN "Crate: " \o doc_item.crate_name \o ", Item: " \o doc_item.name
         \o ", Type: " \o doc_item.item_type \o ", Docs: " \o doc_item.description
    ELSE doc_item.crate_name \o "::" \o doc_item.name \o " [DOCS]: "
         \o doc_item.description

\* L2-normalised model outputs in fixed point: every vector has norm 5.
UnitVectors == << <<5, 0>>, <<4, 3>>, <<3, 4>>, <<0, 5>> >>

\* The model's output for one text: a fixed function of the text.
ModelVector(text) == UnitVectors[(Len(text) % Len(UnitVectors)) + 1]

EmbedErr == [ok |-> FALSE, vectors |-> <<>>]
EmbedOk(texts) == [ok |-> TRUE, vectors |-> [i \in 1..Len(texts) |-> ModelVector(texts[i])]]
\* Mutant: a batch that fails part-way returns the vectors made so far.
embed_batch_Partial(texts) ==
    IF Len(texts) = 0 THEN {EmbedOk(texts)}
    ELSE {EmbedErr, EmbedOk(texts), EmbedOk(SubSeq(texts, 1, Len(texts) - 1))}

\* What embed_batch may return for `texts`: nothing to do for an empty batch,
\* otherwise every vector or, when a tokenizer or model step fails, an error.
embed_batch(texts) ==
    IF Len(texts) = 0 THEN {EmbedOk(texts)} ELSE {EmbedErr, EmbedOk(texts)}

NoRet == [ok |-> FALSE, vectors |-> <<>>, pending |-> TRUE]

\* Items selected for embedding: description present and not blank.
Embeddable(crate_docs) ==
    {k \in DOMAIN crate_docs.items :
        /\ crate_docs.items[k].description # Null
        /\ crate_docs.items[k].description \notin WhitespaceOnly}

\* All orders in which a HashMap may yield the elements of S.
RECURSIVE Perms(_)
Perms(S) ==
    IF S = {} THEN {<<>>}
    ELSE UNION {{<<x>> \o p : p \in Perms(S \ {x})} : x \in S}

\* Mutant: the embeddings are keyed by a path that starts at the crate root
\* twice, which no item of the catalog has.
ZipInsert_OtherKeys(item_paths, vectors) ==
    LET n == IF Len(item_paths) < Len(vectors) THEN Len(item_paths) ELSE Len(vectors)
    IN [k \in {"crate::" \o item_paths[i] : i \in 1..n} |->
          vectors[CHOOSE i \in 1..n : "crate::" \o item_paths[i] = k]]

\* Mutant: the last pair of the zip is lost.
ZipInsert_DropLast(item_paths, vectors) ==
    LET n == (IF Len(item_paths) < Len(vectors) THEN Len(item_paths) ELSE Len(vectors)) - 1
    IN [k \in {item_paths[i] : i \in 1..n} |->
          vectors[CHOOSE i \in 1..n : item_paths[i] = k]]

\* zip(item_paths, vectors) collected into the embeddings map.
ZipInsert(item_paths, vectors) ==
    LET n == IF Len(item_paths) < Len(vectors) THEN Len(item_paths) ELSE Len(vectors)
    IN [k \in {item_paths[i] : i \in 1..n} |->
          vectors[CHOOSE i \in 1..n : item_paths[i] = k /\ \A j \in (i+1)..n : item_paths[j] # k]]

\* ------------------------------------------------------------ query engine
\* Scores are f32 values.  A finite f32 is kept as its significand m (an
\* integer of MantissaBits bits) and exponent e, standing for m * 2^e; the
\* vectors of the model have small integer components, which f32 holds and
\* multiplies and adds exactly, so that rounding happens in sqrt, in the
\* product of the norms and in the division, as in the program.
MantissaBits == 24
ExponentBias == 127

RECURSIVE Pow2(_)
Pow2(n) == IF n = 0 THEN 1 ELSE 2 * Pow2(n - 1)

\* 2^23, the least significand; 2^24, one past the greatest; 2^12.
MinMantissa == Pow2(MantissaBits - 1)
MantissaEnd == Pow2(MantissaBits)
HalfWord == Pow2(MantissaBits \div 2)

Abs(n) == IF n < 0 THEN 0 - n ELSE n

\* The f32 of a positive integer below 2^MantissaBits.
RECURSIVE Normalize(_, _)
Normalize(m, e) ==
    IF m >= MinMantissa THEN [m |-> m, e |-> e]
    ELSE Normalize(2 * m, e - 1)

\* Round to nearest, ties to even: m with the part cut off being `rest` out
\* of `unit`.
RoundNearestEven(m, e, rest, unit) ==
    LET up == 2 * rest > unit \/ (2 * rest = unit /\ m % 2 = 1)
        r == IF up THEN m + 1 ELSE m
    IN IF r = MantissaEnd THEN [m |-> r \div 2, e |-> e + 1]
       ELSE [m |-> r, e |-> e]

RECURSIVE Dot(_, _)
Dot(v1, v2) ==
    IF Len(v1) = 0 \/ Len(v2) = 0 THEN 0
    ELSE Head(v1) * Head(v2) + Dot(Tail(v1), Tail(v2))

\* Square root, rounded down.
ISqrt(n) == CHOOSE r \in 0..n : r * r <= n /\ (r + 1) * (r + 1) > n

\* One more binary digit of the square root at a time: root is the root so
\* far, rem what is left of the radicand.
RECURSIVE SqrtDigits(_, _, _)
SqrtDigits(root, rem, e) ==
    IF root >= MinMantissa
    THEN RoundNearestEven(root, e, rem, 2 * root)
    ELSE IF 4 * rem >= 4 * root + 1
         THEN SqrtDigits(2 * root + 1, 4 * rem - (4 * root + 1), e - 1)
         ELSE SqrtDigits(2 * root, 4 * rem, e - 1)

\* f32::sqrt of a positive integer: correctly rounded.
F32Sqrt(n) == SqrtDigits(ISqrt(n), n - ISqrt(n) * ISqrt(n), 0)

\* The f32 product a * b.
F32Mul(a, b) ==
    LET half == HalfWord
        full == MantissaEnd
        ah == a.m \div half
        al == a.m % half
        bh == b.m \div half
        bl == b.m % half
        mid == ah * bl + al * bh
        t == al * bl + (mid % half) * half
        L == t % full
        H == ah * bh + mid \div half + t \div full
    IN IF H >= full \div 2
       THEN RoundNearestEven(H, a.e + b.e + MantissaBits, L, full)
       ELSE RoundNearestEven(2 * H + L \div (full \div 2),
                             a.e + b.e + MantissaBits - 1,
                             L % (full \div 2), full \div 2)

\* Long division, one binary digit of the quotient at a time.
RECURSIVE DivDigits(_, _, _, _)
DivDigits(quot, rem, den, e) ==
    IF quot >= MinMantissa THEN RoundNearestEven(quot, e, rem, den)
    ELSE IF 2 * rem >= den
         THEN DivDigits(2 * quot + 1, 2 * rem - den, den, e - 1)
         ELSE DivDigits(2 * quot, 2 * rem, den, e - 1)

\* The f32 quotient a / b of two positive values.
F32Div(a, b) ==
    IF a.m >= b.m THEN DivDigits(1, a.m - b.m, b.m, a.e - b.e)
    ELSE DivDigits(0, a.m, b.m, a.e - b.e)

\* A positive f32 as a number that orders as the f32 does: its bit pattern.
F32Bits(x) ==
    (x.e + MantissaBits - 1 + ExponentBias) * MinMantissa + (x.m - MinMantissa)

\* 1.0_f32
One == F32Bits(Normalize(1, 0))

\* The score of two vectors past the length test: 0 for 0.0, the bit pattern
\* of a positive score, minus the bit pattern of its absolute value for a
\* negative one.
NormalizedDot(v1, v2) ==
    LET dot_product == Dot(v1, v2)
        sq_v1 == Dot(v1, v1)
        sq_v2 == Dot(v2, v2)
    IN IF sq_v1 = 0 \/ sq_v2 = 0 THEN 0
       ELSE IF dot_product = 0 THEN 0
       ELSE LET norm_v1 == F32Sqrt(sq_v1)
                norm_v2 == F32Sqrt(sq_v2)
                q == F32Bits(F32Div(Normalize(Abs(dot_product), 0),
                                    F32Mul(norm_v1, norm_v2)))
            IN IF dot_product < 0 THEN 0 - q ELSE q

\* Mutant: vectors of different lengths are compared over the shorter one.
cosine_similarity_NoLenCheck(v1, v2) ==
    IF Len(v1) = 0 \/ Len(v2) = 0 THEN 0 ELSE NormalizedDot(v1, v2)

\* The same computation in commands.rs and in mcp_server.rs.
cosine_similarity(v1, v2) ==
    IF Len(v1) = 0 \/ Len(v2) = 0 \/ Len(v1) # Len(v2) THEN 0
    ELSE NormalizedDot(v1, v2)

\* Character caps of the description snippet on each surface.
SnippetCapCmd == 300
SnippetCapMcp == 150

Take(s, n) == IF Len(s) <= n THEN s ELSE SubSeq(s, 1, n)

DescriptionSnippet(surface, description) ==
    IF description = Null THEN Null
    ELSE IF surface = "cmd" THEN Take(description, SnippetCapCmd)
    ELSE Take(description, SnippetCapMcp) \o "..."

\* num_results.unwrap_or(5)
DefaultNumResults == 5
NumResultsCap(num_results) ==
    IF num_results = NoNum THEN DefaultNumResults ELSE num_results

\* Mutant: the filter is ignored.
IsCandidate_All(project_path, current_proj_path) == TRUE

\* Whether the scan visits a project of the store under the filter.
IsCandidate(project_path, current_proj_path) ==
    project_path = Null \/ project_path = current_proj_path

\* All positions at which a HashMap may yield a new key among the old ones.
Insertions(order, key) ==
    {SubSeq(order, 1, i) \o <<key>> \o SubSeq(order, i + 1, Len(order)) :
        i \in 0..Len(order)}

\* The (project, item) pairs in the order the nested iteration visits them:
\* the store's HashMap outside, each candidate's embeddings HashMap inside.
RECURSIVE ScanPairs(_, _, _)
ScanPairs(order, project_path, proj_seq) ==
    IF Len(proj_seq) = 0 THEN <<>>
    ELSE LET p == Head(proj_seq)
             inner == order.embeddings[p]
         IN (IF IsCandidate(project_path, p)
             THEN [i \in 1..Len(inner) |-> <<p, inner[i]>>]
             ELSE <<>>)
            \o ScanPairs(order, project_path, Tail(proj_seq))

\* cosine_similarity on the vectors the model produces, computed once.
ModelCosine ==
    [v1 \in {UnitVectors[i] : i \in DOMAIN UnitVectors} |->
        [v2 \in {UnitVectors[i] : i \in DOMAIN UnitVectors} |->
            cosine_similarity(v1, v2)]]

\* One scored entry, or none when the item record is missing.
ScoredItem(surface, store, query_embedding, pair) ==
    LET proj_data == store[pair[1]]
        items == proj_data.crate_docs.items
    IN IF pair[2] \in DOMAIN items
       THEN << [ project_path |-> pair[1],
                 item_full_path |-> IF surface = "cmd" THEN pair[2]
                                    ELSE items[pair[2]].full_path_str,
                 item_type |-> items[pair[2]].item_type,
                 description_snippet |->
                     DescriptionSnippet(surface, items[pair[2]].description),
                 score |-> ModelCosine[query_embedding][
                                             proj_data.embeddings[pair[2]]] ] >>
       ELSE <<>>

RECURSIVE ScoreAll(_, _, _, _)
ScoreAll(surface, store, query_embedding, pairs) ==
    IF Len(pairs) = 0 THEN <<>>
    ELSE ScoredItem(surface, store, query_embedding, Head(pairs))
         \o ScoreAll(surface, store, query_embedding, Tail(pairs))

\* Insert x behind every element whose score is at least x's (stable).
RECURSIVE InsertDesc(_, _)
InsertDesc(sorted, x) ==
    IF Len(sorted) = 0 THEN <<x>>
    ELSE IF Head(sorted).score >= x.score
         THEN <<Head(sorted)>> \o InsertDesc(Tail(sorted), x)
         ELSE <<x>> \o sorted

\* Mutant: the scored items are left in scan order.
SortByScoreDesc_Unsorted(items) == items

\* sort_by(|a, b| b.score.partial_cmp(&a.score)): stable, descending.
RECURSIVE SortByScoreDesc(_)
SortByScoreDesc(items) ==
    IF Len(items) = 0 THEN <<>>
    ELSE InsertDesc(SortByScoreDesc(SubSeq(items, 1, Len(items) - 1)),
                    items[Len(items)])

\* Mutant: the list is returned whole.
Truncate_None(items, n) == items

Truncate(items, n) == IF Len(items) <= n THEN items ELSE SubSeq(items, 1, n)

\* Mutant: the list is cut to k in scan order and sorted afterwards.
RankedResults_TruncateFirst(surface, store, query_embedding, num_results, pairs) ==
    SortByScoreDesc(Truncate(ScoreAll(surface, store, query_embedding, pairs),
                             NumResultsCap(num_results)))

\* The ranked result list for one visiting order.
RankedResults(surface, store, query_embedding, num_results, pairs) ==
    Truncate(SortByScoreDesc(ScoreAll(surface, store, query_embedding, pairs)),
             NumResultsCap(num_results))

\* ------------------------------------------------------------------- state
VARIABLES
    GLOBAL_EMBEDDER,     \* the Option<Embedder> inside the mutex: "None" | "Some"
    embedder_lock,       \* task holding the GLOBAL_EMBEDDER mutex, or NoTask
    processed_projects,  \* AppState.processed_projects: path -> ProjectData
    projects_lock,       \* task holding the processed_projects mutex, or NoTask
    hash_order,          \* iteration order of the store's HashMaps
    files,               \* rustdoc_output_dir: file name -> raw tree
    call,                \* the frame of the call each task is running
    serving,             \* run() is past its init_global_embedder call
    calls,               \* number of calls the callers still issue
    installs,            \* history: Embedder values stored into GLOBAL_EMBEDDER
    init_failed,         \* history: an Embedder::new() has failed
    fn_args,             \* a library function called on its own: its arguments
    fn_result            \* ... and what it returned

app_vars == <<GLOBAL_EMBEDDER, embedder_lock, processed_projects, projects_lock,
              hash_order, files, call, serving, calls, installs, init_failed>>
fn_vars == <<fn_args, fn_result>>
vars == <<app_vars, fn_vars>>

NoData == [crate_docs |-> ParseError, embeddings |-> EmptyMap]
NoResult == [ok |-> FALSE, pending |-> TRUE]

IdleFrame ==
    [ pc |-> "idle", op |-> Null, surface |-> Null, path |-> Null,
      query |-> Null, num_results |-> NoNum,
      json_path |-> Null, crate_docs |-> ParseError, item_paths |-> <<>>,
      texts |-> <<>>, ret |-> NoRet, project_data |-> NoData,
      query_embedding |-> <<>>, result |-> NoResult ]

\* The frame of a call that has returned `result` to the caller, who knows
\* what it asked.
Returned(frame, result) ==
    [IdleFrame EXCEPT !.pc = "done", !.op = frame.op,
                      !.surface = frame.surface, !.path = frame.path,
                      !.query = frame.query, !.num_results = frame.num_results,
                      !.result = result]

Err(msg) == [ok |-> FALSE, error |-> msg]

ProjectData(crate_docs, embeddings) ==
    [crate_docs |-> crate_docs, embeddings |-> embeddings]

\* The iteration order of one project's embeddings map, as built.
SetOrder(orders, key, order) ==
    [k \in DOMAIN orders \cup {key} |-> IF k = key THEN order ELSE orders[k]]

\* Mutant: the new entry is merged into the one already stored.
MapInsert_Merge(map, key, value) ==
    [k \in DOMAIN map \cup {key} |->
        IF k # key THEN map[k]
        ELSE IF key \notin DOMAIN map THEN value
        ELSE [ crate_docs |-> value.crate_docs,
               embeddings |->
                   [e \in DOMAIN map[key].embeddings \cup DOMAIN value.embeddings |->
                       IF e \in DOMAIN value.embeddings THEN value.embeddings[e]
                       ELSE map[key].embeddings[e]] ]]

\* Mutant: the store is rebuilt around the new entry.
MapInsert_ReplaceAll(map, key, value) == [k \in {key} |-> value]

\* HashMap::insert: the entry under key is replaced wholesale.
MapInsert(map, key, value) ==
    [k \in DOMAIN map \cup {key} |-> IF k = key THEN value ELSE map[k]]

\* Dropping a guard held by task t.
Unlock(lock, t) == IF lock = t THEN NoTask ELSE lock

TypeOK ==
    /\ GLOBAL_EMBEDDER \in {"None", "Some"}
    /\ embedder_lock \in Tasks \cup {NoTask}
    /\ projects_lock \in Tasks \cup {NoTask}
    /\ DOMAIN processed_projects \subseteq Projects
    /\ DOMAIN hash_order.embeddings = DOMAIN processed_projects
    /\ {hash_order.projects[i] : i \in 1..Len(hash_order.projects)}
          = DOMAIN processed_projects
    /\ \A p \in DOMAIN processed_projects :
          hash_order.embeddings[p] \in Perms(DOMAIN processed_projects[p].embeddings)
    /\ DOMAIN files = OutputFiles
    /\ DOMAIN call = Tasks
    /\ serving \in BOOLEAN

\* No library function is called on its own while the process serves.
NoCall == [fn |-> "none"]
Pending == [done |-> FALSE]

\* The process at its start: nothing initialised, nothing indexed.
Init ==
    /\ GLOBAL_EMBEDDER = "None"
    /\ embedder_lock = NoTask
    /\ processed_projects = EmptyMap
    /\ hash_order = [projects |-> <<>>, embeddings |-> EmptyMap]
    /\ projects_lock = NoTask
    /\ files = [f \in OutputFiles |-> NoFile]
    /\ call = [t \in Tasks |-> IdleFrame]
    /\ serving = FALSE
    /\ calls = MaxCalls
    /\ installs = 0
    /\ init_failed = FALSE
    /\ fn_args = NoCall
    /\ fn_result = Pending

\* run(): the one init_global_embedder call of the start-up, whose failure is
\* logged and ignored; then the MCP server and the command handlers serve.
RunStartup ==
    /\ ~serving
    /\ serving' = TRUE
    /\ \E loaded \in BOOLEAN :
         IF loaded
         THEN GLOBAL_EMBEDDER' = "Some" /\ installs' = 1 /\ init_failed' = FALSE
         ELSE GLOBAL_EMBEDDER' = "None" /\ installs' = 0 /\ init_failed' = TRUE
    /\ UNCHANGED <<fn_vars, embedder_lock, processed_projects, hash_order,
                   projects_lock, files, call, calls>>

SetFrame(t, frame) == call' = [call EXCEPT ![t] = frame]

\* ------------------------------------------------- init_global_embedder
StartInitEmbedder(t) ==
    /\ serving
    /\ call[t].pc \in {"idle", "done"}
    /\ calls > 0
    /\ calls' = calls - 1
    /\ SetFrame(t, [IdleFrame EXCEPT !.pc = "init_lock", !.op = "init"])
    /\ UNCHANGED <<fn_vars, serving, GLOBAL_EMBEDDER, embedder_lock, processed_projects,
                   hash_order, projects_lock, files, installs, init_failed>>

\* Mutant: the is_none() test is missing.
InitLockEmbedder_NoCheck(t) ==
    /\ call[t].pc = "init_lock"
    /\ embedder_lock = NoTask
    /\ embedder_lock' = t
    /\ SetFrame(t, [call[t] EXCEPT !.pc = "init_new"])
    /\ UNCHANGED <<fn_vars, serving, GLOBAL_EMBEDDER, processed_projects, hash_order,
                   projects_lock, files, calls, installs, init_failed>>

\* GLOBAL_EMBEDDER.lock(), then the is_none() test.
InitLockEmbedder(t) ==
    /\ call[t].pc = "init_lock"
    /\ embedder_lock = NoTask
    /\ IF GLOBAL_EMBEDDER = "None"
       THEN /\ embedder_lock' = t
            /\ SetFrame(t, [call[t] EXCEPT !.pc = "init_new"])
       ELSE /\ embedder_lock' = NoTask
            /\ SetFrame(t, Returned(call[t], [ok |-> TRUE, kind |-> "init"]))
    /\ UNCHANGED <<fn_vars, serving, GLOBAL_EMBEDDER, processed_projects, hash_order,
                   projects_lock, files, calls, installs, init_failed>>

\* Embedder::new() returns under the guard; the guard is dropped on return.
InitEmbedderNew(t) ==
    /\ call[t].pc = "init_new"
    /\ \E loaded \in BOOLEAN :
         IF loaded
         THEN /\ GLOBAL_EMBEDDER' = "Some"
              /\ installs' = IF installs < 2 THEN installs + 1 ELSE installs
              /\ init_failed' = init_failed
              /\ SetFrame(t, Returned(call[t], [ok |-> TRUE, kind |-> "init"]))
         ELSE /\ GLOBAL_EMBEDDER' = GLOBAL_EMBEDDER
              /\ installs' = installs
              /\ init_failed' = TRUE
              /\ SetFrame(t, Returned(call[t],
                     Err("Embedder::new() failed during global initialization")))
    /\ embedder_lock' = Unlock(embedder_lock, t)
    /\ UNCHANGED <<fn_vars, serving, processed_projects, hash_order, projects_lock,
                   files, calls>>

\* ------------------------------------------------ ingest (both surfaces)
\* The handler's entry: the directory check, then generate_rustdoc_json,
\* which moves the JSON to rustdoc_output_dir/<crate>.json, replacing what
\* is there.
StartIngest(t) ==
    /\ serving
    /\ call[t].pc \in {"idle", "done"}
    /\ calls > 0
    /\ calls' = calls - 1
    /\ \E surface \in Surfaces, path \in IngestPaths :
         LET frame == [IdleFrame EXCEPT !.op = "ingest", !.surface = surface,
                                        !.path = path]
         IN IF path \notin Projects
            THEN /\ SetFrame(t, Returned(frame,
                        Err("Project path does not exist or is not a directory")))
                 /\ files' = files
            ELSE \/ /\ SetFrame(t, Returned(frame,
                           Err("Failed to generate rustdoc JSON")))
                    /\ files' = files
                 \/ \E tree \in ProjectTrees(path) :
                      LET json_path == determined_crate_name(path) \o ".json"
                      IN /\ files' = [files EXCEPT ![json_path] = tree]
                         /\ SetFrame(t, [frame EXCEPT !.pc = "i_parse",
                                                      !.json_path = json_path])
    /\ UNCHANGED <<fn_vars, serving, GLOBAL_EMBEDDER, embedder_lock, processed_projects,
                   hash_order, projects_lock, installs, init_failed>>

\* Mutant: a tree that does not parse clears the index stored for the path.
IngestParse_DropStale(t) ==
    /\ call[t].pc = "i_parse"
    /\ LET crate_docs == ParsedFile[files[call[t].json_path]]
           kept == DOMAIN processed_projects \ {call[t].path}
       IN IF crate_docs.ok
          THEN /\ SetFrame(t, [call[t] EXCEPT !.pc = "i_lock_embedder",
                                              !.crate_docs = crate_docs])
               /\ UNCHANGED <<processed_projects, hash_order>>
          ELSE /\ SetFrame(t, Returned(call[t], Err("Failed to parse rustdoc JSON")))
               /\ processed_projects' = [p \in kept |-> processed_projects[p]]
               /\ hash_order' =
                     [projects |-> SelectSeq(hash_order.projects,
                                             LAMBDA p : p # call[t].path),
                      embeddings |-> [p \in kept |-> hash_order.embeddings[p]]]
    /\ UNCHANGED <<fn_vars, serving, GLOBAL_EMBEDDER, embedder_lock,
                   projects_lock, files, calls, installs, init_failed>>

IngestParse(t) ==
    /\ call[t].pc = "i_parse"
    /\ LET crate_docs == ParsedFile[files[call[t].json_path]]
       IN IF crate_docs.ok
          THEN SetFrame(t, [call[t] EXCEPT !.pc = "i_lock_embedder",
                                           !.crate_docs = crate_docs])
          ELSE SetFrame(t, Returned(call[t], Err("Failed to parse rustdoc JSON")))
    /\ UNCHANGED <<fn_vars, serving, GLOBAL_EMBEDDER, embedder_lock, processed_projects,
                   hash_order, projects_lock, files, calls, installs,
                   init_failed>>

\* The frame once project_embeddings is final and project_data is built.
WithProjectData(frame, embeddings) ==
    [frame EXCEPT !.pc = "i_lock_store", !.item_paths = <<>>, !.texts = <<>>,
                  !.ret = NoRet,
                  !.project_data = ProjectData(frame.crate_docs, embeddings)]

\* GLOBAL_EMBEDDER.lock(); without an embedder, or without a text to embed,
\* the call goes on to build project_data with no embeddings; otherwise it
\* calls embed_batch. The guard lives until the handler returns.
IngestLockEmbedder(t) ==
    /\ call[t].pc = "i_lock_embedder"
    /\ embedder_lock = NoTask
    /\ embedder_lock' = t
    /\ IF GLOBAL_EMBEDDER = "None" \/ Embeddable(call[t].crate_docs) = {}
       THEN SetFrame(t, WithProjectData(call[t], EmptyMap))
       ELSE \E item_paths \in Perms(Embeddable(call[t].crate_docs)) :
              SetFrame(t, [call[t] EXCEPT
                  !.pc = "i_embedding",
                  !.item_paths = item_paths,
                  !.texts = [i \in 1..Len(item_paths) |->
                               EmbedText(call[t].surface,
                                         call[t].crate_docs.items[item_paths[i]])]])
    /\ UNCHANGED <<fn_vars, serving, GLOBAL_EMBEDDER, processed_projects, hash_order,
                   projects_lock, files, calls, installs, init_failed>>

\* Embedder::embed_batch returns: all vectors, or an error and none.
EmbedBatchReturn(t) ==
    /\ call[t].pc \in {"i_embedding", "q_embedding"}
    /\ \E ret \in embed_batch(call[t].texts) :
         SetFrame(t, [call[t] EXCEPT
             !.pc = IF call[t].pc = "i_embedding" THEN "i_embedded" ELSE "q_embedded",
             !.ret = ret])
    /\ UNCHANGED <<fn_vars, serving, GLOBAL_EMBEDDER, embedder_lock, processed_projects,
                   hash_order, projects_lock, files, calls, installs,
                   init_failed>>

\* Mutant: embed_batch's error is propagated with `?`.
IngestAfterEmbed_Propagate(t) ==
    /\ call[t].pc = "i_embedded"
    /\ IF call[t].ret.ok
       THEN /\ SetFrame(t, WithProjectData(call[t],
                   ZipInsert(call[t].item_paths, call[t].ret.vectors)))
            /\ embedder_lock' = embedder_lock
       ELSE /\ SetFrame(t, Returned(call[t], Err("Failed to embed batch")))
            /\ embedder_lock' = Unlock(embedder_lock, t)
    /\ UNCHANGED <<fn_vars, serving, GLOBAL_EMBEDDER, processed_projects, hash_order,
                   projects_lock, files, calls, installs, init_failed>>

\* Mutant: a failed batch is retried.
IngestAfterEmbed_Retry(t) ==
    /\ call[t].pc = "i_embedded"
    /\ IF call[t].ret.ok
       THEN SetFrame(t, WithProjectData(call[t],
                ZipInsert(call[t].item_paths, call[t].ret.vectors)))
       ELSE SetFrame(t, [call[t] EXCEPT !.pc = "i_embedding", !.ret = NoRet])
    /\ UNCHANGED <<fn_vars, serving, GLOBAL_EMBEDDER, embedder_lock, processed_projects,
                   hash_order, projects_lock, files, calls, installs,
                   init_failed>>

\* Mutant: the embedder guard is dropped once the embeddings are there.
IngestAfterEmbed_DropGuard(t) ==
    /\ call[t].pc = "i_embedded"
    /\ LET embeddings == IF call[t].ret.ok
                         THEN ZipInsert(call[t].item_paths, call[t].ret.vectors)
                         ELSE EmptyMap
       IN SetFrame(t, WithProjectData(call[t], embeddings))
    /\ embedder_lock' = Unlock(embedder_lock, t)
    /\ UNCHANGED <<fn_vars, serving, GLOBAL_EMBEDDER, processed_projects,
                   hash_order, projects_lock, files, calls, installs,
                   init_failed>>

\* The match on embed_batch's result, then the ProjectData literal.
IngestAfterEmbed(t) ==
    /\ call[t].pc = "i_embedded"
    /\ LET embeddings == IF call[t].ret.ok
                         THEN ZipInsert(call[t].item_paths, call[t].ret.vectors)
                         ELSE EmptyMap
       IN SetFrame(t, WithProjectData(call[t], embeddings))
    /\ UNCHANGED <<fn_vars, serving, GLOBAL_EMBEDDER, embedder_lock, processed_projects,
                   hash_order, projects_lock, files, calls, installs,
                   init_failed>>

\* processed_projects.lock().await
IngestLockStore(t) ==
    /\ call[t].pc = "i_lock_store"
    /\ projects_lock = NoTask
    /\ projects_lock' = t
    /\ SetFrame(t, [call[t] EXCEPT !.pc = "i_insert"])
    /\ UNCHANGED <<fn_vars, serving, GLOBAL_EMBEDDER, embedder_lock, processed_projects,
                   hash_order, files, calls, installs, init_failed>>

\* Mutant: the MCP server inserts into an AppState of its own.
IngestInsert_OwnStore(t) ==
    /\ call[t].pc = "i_insert"
    /\ IF call[t].surface = "mcp"
       THEN UNCHANGED <<fn_vars, processed_projects, hash_order>>
       ELSE /\ processed_projects' =
                  MapInsert(processed_projects, call[t].path, call[t].project_data)
            /\ \E projects \in (IF call[t].path \in DOMAIN processed_projects
                                THEN {hash_order.projects}
                                ELSE Insertions(hash_order.projects, call[t].path)),
                  inner \in Perms(DOMAIN call[t].project_data.embeddings) :
                 hash_order' = [ projects |-> projects,
                                 embeddings |-> SetOrder(hash_order.embeddings,
                                                call[t].path, inner) ]
    /\ SetFrame(t, Returned(call[t],
           [ ok |-> TRUE, kind |-> "ingest", path |-> call[t].path,
             num_embedded |-> Cardinality(DOMAIN call[t].project_data.embeddings),
             total |-> Cardinality(DOMAIN processed_projects \cup {call[t].path}) ]))
    /\ projects_lock' = Unlock(projects_lock, t)
    /\ embedder_lock' = Unlock(embedder_lock, t)
    /\ UNCHANGED <<fn_vars, serving, GLOBAL_EMBEDDER, files, calls, installs,
                   init_failed>>

\* Mutant: the catalog is published without the embeddings built for it.
IngestInsert_HalfBuilt(t) ==
    /\ call[t].pc = "i_insert"
    /\ hash_order' = [ projects |-> IF call[t].path \in DOMAIN processed_projects
                                    THEN hash_order.projects
                                    ELSE hash_order.projects \o <<call[t].path>>,
                    embeddings |-> SetOrder(hash_order.embeddings,
                                   call[t].path, <<>>) ]
    /\ processed_projects' =
           MapInsert(processed_projects, call[t].path,
                     ProjectData(call[t].crate_docs, EmptyMap))
    /\ SetFrame(t, Returned(call[t],
           [ ok |-> TRUE, kind |-> "ingest", path |-> call[t].path,
             num_embedded |-> 0,
             total |-> Cardinality(DOMAIN processed_projects') ]))
    /\ projects_lock' = Unlock(projects_lock, t)
    /\ embedder_lock' = Unlock(embedder_lock, t)
    /\ UNCHANGED <<fn_vars, serving, GLOBAL_EMBEDDER, files, calls, installs,
                   init_failed>>

\* Mutant: the embedder guard outlives the handler.
IngestInsert_KeepEmbedderGuard(t) ==
    /\ call[t].pc = "i_insert"
    /\ \E projects \in (IF call[t].path \in DOMAIN processed_projects
                        THEN {hash_order.projects}
                        ELSE Insertions(hash_order.projects, call[t].path)),
          inner \in Perms(DOMAIN call[t].project_data.embeddings) :
         hash_order' = [ projects |-> projects,
                         embeddings |-> SetOrder(hash_order.embeddings,
                                        call[t].path, inner) ]
    /\ processed_projects' =
           MapInsert(processed_projects, call[t].path, call[t].project_data)
    /\ SetFrame(t, Returned(call[t],
           [ ok |-> TRUE, kind |-> "ingest", path |-> call[t].path,
             num_embedded |->
                 Cardinality(DOMAIN processed_projects'[call[t].path].embeddings),
             total |-> Cardinality(DOMAIN processed_projects') ]))
    /\ projects_lock' = Unlock(projects_lock, t)
    /\ embedder_lock' = embedder_lock
    /\ UNCHANGED <<fn_vars, serving, GLOBAL_EMBEDDER, files, calls, installs,
                   init_failed>>

\* insert, the success message, and the drop of both guards on return.
IngestInsert(t) ==
    /\ call[t].pc = "i_insert"
    /\ \E projects \in (IF call[t].path \in DOMAIN processed_projects
                        THEN {hash_order.projects}
                        ELSE Insertions(hash_order.projects, call[t].path)),
          inner \in Perms(DOMAIN call[t].project_data.embeddings) :
         hash_order' = [ projects |-> projects,
                         embeddings |-> SetOrder(hash_order.embeddings,
                                        call[t].path, inner) ]
    /\ processed_projects' =
           MapInsert(processed_projects, call[t].path, call[t].project_data)
    /\ SetFrame(t, Returned(call[t],
           [ ok |-> TRUE, kind |-> "ingest", path |-> call[t].path,
             num_embedded |->
                 Cardinality(DOMAIN processed_projects'[call[t].path].embeddings),
             total |-> Cardinality(DOMAIN processed_projects') ]))
    /\ projects_lock' = Unlock(projects_lock, t)
    /\ embedder_lock' = Unlock(embedder_lock, t)
    /\ UNCHANGED <<fn_vars, serving, GLOBAL_EMBEDDER, files, calls, installs,
                   init_failed>>

\* Mutant: the store guard is taken on entry, before the embedding.
StartQuery_StoreFirst(t) ==
    /\ serving
    /\ call[t].pc \in {"idle", "done"}
    /\ calls > 0
    /\ calls' = calls - 1
    /\ projects_lock = NoTask
    /\ projects_lock' = t
    /\ \E surface \in Surfaces, query \in QueryTexts,
          project_path \in QueryFilters, num_results \in NumResultsArgs :
         SetFrame(t, [IdleFrame EXCEPT !.pc = "q_lock_embedder", !.op = "query",
                                       !.surface = surface, !.query = query,
                                       !.path = project_path,
                                       !.num_results = num_results])
    /\ UNCHANGED <<fn_vars, serving, GLOBAL_EMBEDDER, embedder_lock, processed_projects,
                   hash_order, files, installs, init_failed>>

\* -------------------------------------------------- query (both surfaces)
StartQuery(t) ==
    /\ serving
    /\ call[t].pc \in {"idle", "done"}
    /\ calls > 0
    /\ calls' = calls - 1
    /\ \E surface \in Surfaces, query \in QueryTexts,
          project_path \in QueryFilters, num_results \in NumResultsArgs :
         SetFrame(t, [IdleFrame EXCEPT !.pc = "q_lock_embedder", !.op = "query",
                                       !.surface = surface, !.query = query,
                                       !.path = project_path,
                                       !.num_results = num_results])
    /\ UNCHANGED <<fn_vars, serving, GLOBAL_EMBEDDER, embedder_lock, processed_projects,
                   hash_order, projects_lock, files, installs, init_failed>>

NotInitializedError(surface) ==
    IF surface = "cmd" THEN Err("Embedder not initialized")
    ELSE Err("Embedder not initialized. Cannot generate query embedding.")

\* Mutant: the embedder is used without taking its mutex.
QueryLockEmbedder_NoLock(t) ==
    /\ call[t].pc = "q_lock_embedder"
    /\ IF GLOBAL_EMBEDDER = "None"
       THEN SetFrame(t, Returned(call[t], NotInitializedError(call[t].surface)))
       ELSE SetFrame(t, [call[t] EXCEPT !.pc = "q_embedding",
                                        !.texts = <<call[t].query>>])
    /\ UNCHANGED <<fn_vars, serving, GLOBAL_EMBEDDER, embedder_lock, processed_projects,
                   hash_order, projects_lock, files, calls, installs,
                   init_failed>>

\* GLOBAL_EMBEDDER.lock(); without an embedder the call returns the error
\* (dropping the guard), otherwise it calls embed_sentence.
QueryLockEmbedder(t) ==
    /\ call[t].pc = "q_lock_embedder"
    /\ embedder_lock = NoTask
    /\ IF GLOBAL_EMBEDDER = "None"
       THEN /\ embedder_lock' = NoTask
            /\ SetFrame(t, Returned(call[t], NotInitializedError(call[t].surface)))
       ELSE /\ embedder_lock' = t
            /\ SetFrame(t, [call[t] EXCEPT !.pc = "q_embedding",
                                           !.texts = <<call[t].query>>])
    /\ UNCHANGED <<fn_vars, serving, GLOBAL_EMBEDDER, processed_projects, hash_order,
                   projects_lock, files, calls, installs, init_failed>>

\* Mutant: a failed embedding falls back to an empty query vector.
QueryAfterEmbed_Default(t) ==
    /\ call[t].pc = "q_embedded"
    /\ SetFrame(t, [call[t] EXCEPT
           !.pc = "q_lock_store", !.texts = <<>>, !.ret = NoRet,
           !.query_embedding = IF call[t].ret.ok /\ Len(call[t].ret.vectors) > 0
                               THEN call[t].ret.vectors[1] ELSE <<>>])
    /\ embedder_lock' = IF call[t].surface = "cmd"
                        THEN Unlock(embedder_lock, t)
                        ELSE embedder_lock
    /\ UNCHANGED <<fn_vars, serving, GLOBAL_EMBEDDER, processed_projects, hash_order,
                   projects_lock, files, calls, installs, init_failed>>

\* embed_sentence's tail and the handler's `?`. The command drops the guard
\* at the end of its block; the MCP handler keeps it until it returns.
QueryAfterEmbed(t) ==
    /\ call[t].pc = "q_embedded"
    /\ IF ~call[t].ret.ok \/ Len(call[t].ret.vectors) = 0
       THEN /\ SetFrame(t, Returned(call[t], Err("Failed to embed query")))
            /\ embedder_lock' = Unlock(embedder_lock, t)
       ELSE /\ SetFrame(t, [call[t] EXCEPT !.pc = "q_lock_store",
                                           !.texts = <<>>, !.ret = NoRet,
                                           !.query_embedding = call[t].ret.vectors[1]])
            /\ embedder_lock' = IF call[t].surface = "cmd"
                                THEN Unlock(embedder_lock, t)
                                ELSE embedder_lock
    /\ UNCHANGED <<fn_vars, serving, GLOBAL_EMBEDDER, processed_projects, hash_order,
                   projects_lock, files, calls, installs, init_failed>>

QueryLockStore(t) ==
    /\ call[t].pc = "q_lock_store"
    /\ projects_lock = NoTask
    /\ projects_lock' = t
    /\ SetFrame(t, [call[t] EXCEPT !.pc = "q_scan"])
    /\ UNCHANGED <<fn_vars, serving, GLOBAL_EMBEDDER, embedder_lock, processed_projects,
                   hash_order, files, calls, installs, init_failed>>

\* Mutant: a filter that matches no project of the store is an error.
QueryScan_UnknownIsError(t) ==
    /\ call[t].pc = "q_scan"
    /\ IF call[t].path # Null /\ call[t].path \notin DOMAIN processed_projects
       THEN SetFrame(t, Returned(call[t],
                Err("Project has not been processed or was not found.")))
       ELSE SetFrame(t, Returned(call[t],
                [ ok |-> TRUE, kind |-> "query",
                  items |-> RankedResults(call[t].surface, processed_projects,
                                call[t].query_embedding, call[t].num_results,
                                ScanPairs(hash_order, call[t].path,
                                          hash_order.projects)) ]))
    /\ projects_lock' = Unlock(projects_lock, t)
    /\ embedder_lock' = Unlock(embedder_lock, t)
    /\ UNCHANGED <<fn_vars, serving, GLOBAL_EMBEDDER, processed_projects, hash_order,
                   files, calls, installs, init_failed>>

\* The scan, sort and truncation under the store guard; all guards the call
\* still holds are dropped on return.
QueryScan(t) ==
    /\ call[t].pc = "q_scan"
    /\ SetFrame(t, Returned(call[t],
           [ ok |-> TRUE, kind |-> "query",
             items |-> RankedResults(call[t].surface, processed_projects,
                           call[t].query_embedding, call[t].num_results,
                           ScanPairs(hash_order, call[t].path,
                                     hash_order.projects)) ]))
    /\ projects_lock' = Unlock(projects_lock, t)
    /\ embedder_lock' = Unlock(embedder_lock, t)
    /\ UNCHANGED <<fn_vars, serving, GLOBAL_EMBEDDER, processed_projects, hash_order,
                   files, calls, installs, init_failed>>

\* Mutant: only the projects that have embeddings are listed.
ListProjects_EmbeddedOnly(t) ==
    /\ serving
    /\ call[t].pc \in {"idle", "done"}
    /\ calls > 0
    /\ calls' = calls - 1
    /\ projects_lock = NoTask
    /\ SetFrame(t, Returned([IdleFrame EXCEPT !.op = "list", !.surface = "cmd"],
                          [ok |-> TRUE, kind |-> "list",
                           keys |-> SelectSeq(hash_order.projects,
                               LAMBDA p : processed_projects[p].embeddings # EmptyMap)]))
    /\ UNCHANGED <<fn_vars, serving, GLOBAL_EMBEDDER, embedder_lock, processed_projects,
                   hash_order, projects_lock, files, installs, init_failed>>

\* Mutant: the keys are taken out of the store with drain().
ListProjects_Drain(t) ==
    /\ serving
    /\ call[t].pc \in {"idle", "done"}
    /\ calls > 0
    /\ calls' = calls - 1
    /\ projects_lock = NoTask
    /\ SetFrame(t, Returned([IdleFrame EXCEPT !.op = "list", !.surface = "cmd"],
                          [ok |-> TRUE, kind |-> "list",
                           keys |-> hash_order.projects]))
    /\ processed_projects' = EmptyMap
    /\ hash_order' = [projects |-> <<>>, embeddings |-> EmptyMap]
    /\ UNCHANGED <<fn_vars, serving, GLOBAL_EMBEDDER, embedder_lock,
                   projects_lock, files, installs, init_failed>>

\* ------------------------------- get_processed_project_list (commands)
\* The whole command: lock, collect the keys, drop the guard.
ListProjects(t) ==
    /\ serving
    /\ call[t].pc \in {"idle", "done"}
    /\ calls > 0
    /\ calls' = calls - 1
    /\ projects_lock = NoTask
    /\ SetFrame(t, Returned([IdleFrame EXCEPT !.op = "list", !.surface = "cmd"],
                          [ok |-> TRUE, kind |-> "list",
                           keys |-> hash_order.projects]))
    /\ UNCHANGED <<fn_vars, serving, GLOBAL_EMBEDDER, embedder_lock, processed_projects,
                   hash_order, projects_lock, files, installs, init_failed>>

\* ------------------------------------- get_raw_documentation (MCP tool)
RawProjects == {"pA"}
RawItemPaths == {"k::a::hello"}

\* The whole tool call: lock, look the item up, drop the guard.
GetRawDocumentation(t) ==
    /\ serving
    /\ call[t].pc \in {"idle", "done"}
    /\ calls > 0
    /\ calls' = calls - 1
    /\ projects_lock = NoTask
    /\ \E project_path \in RawProjects, item_path \in RawItemPaths :
         SetFrame(t, Returned([IdleFrame EXCEPT !.op = "get_raw", !.surface = "mcp",
                                                !.path = project_path,
                                                !.query = item_path],
             IF project_path \notin DOMAIN processed_projects
             THEN Err("Project has not been processed or was not found.")
             ELSE IF item_path
                       \notin DOMAIN processed_projects[project_path].crate_docs.items
             THEN Err("Item not found in project")
             ELSE [ ok |-> TRUE, kind |-> "get_raw",
                    doc_item |-> processed_projects[project_path]
                                     .crate_docs.items[item_path] ]))
    /\ UNCHANGED <<fn_vars, serving, GLOBAL_EMBEDDER, embedder_lock, processed_projects,
                   hash_order, projects_lock, files, installs, init_failed>>

Next ==
    \/ RunStartup
    \/ \E t \in Tasks :
        \/ StartInitEmbedder(t)
        \/ InitLockEmbedder(t)
        \/ InitEmbedderNew(t)
        \/ StartIngest(t)
        \/ IngestParse(t)
        \/ IngestLockEmbedder(t)
        \/ EmbedBatchReturn(t)
        \/ IngestAfterEmbed(t)
        \/ IngestLockStore(t)
        \/ IngestInsert(t)
        \/ StartQuery(t)
        \/ QueryLockEmbedder(t)
        \/ QueryAfterEmbed(t)
        \/ QueryLockStore(t)
        \/ QueryScan(t)
        \/ ListProjects(t)
        \/ GetRawDocumentation(t)

Spec == Init /\ [][Next]_vars

\* ------------------------------------------------------ progress of calls
\* The steps of a call that has begun: every step of a handler after its
\* first one.
Continue(t) ==
    \/ InitLockEmbedder(t)
    \/ InitEmbedderNew(t)
    \/ IngestParse(t)
    \/ IngestLockEmbedder(t)
    \/ EmbedBatchReturn(t)
    \/ IngestAfterEmbed(t)
    \/ IngestLockStore(t)
    \/ IngestInsert(t)
    \/ QueryLockEmbedder(t)
    \/ QueryAfterEmbed(t)
    \/ QueryLockStore(t)
    \/ QueryScan(t)

\* Calls the clients make in the runs whose progress is checked.
LiveCalls == 2

\* The state after construction, with that many calls to come.
LiveInit ==
    /\ GLOBAL_EMBEDDER = "None"
    /\ embedder_lock = NoTask
    /\ processed_projects = EmptyMap
    /\ hash_order = [projects |-> <<>>, embeddings |-> EmptyMap]
    /\ projects_lock = NoTask
    /\ files = [f \in OutputFiles |-> NoFile]
    /\ call = [t \in Tasks |-> IdleFrame]
    /\ serving = FALSE
    /\ calls = LiveCalls
    /\ installs = 0
    /\ init_failed = FALSE
    /\ fn_args = NoCall
    /\ fn_result = Pending

\* The serving process where the runtime keeps running every task whose
\* handler has begun, a free mutex is handed to a task that waits for it, and
\* every embed_batch call returns.  Clients are free to stop calling.
LiveSpec == LiveInit /\ [][Next]_vars /\ \A t \in Tasks : WF_vars(Continue(t))

\* ------------------------------------------- library functions on their own
\* The functions of the normalizer, the provider and the query engine called
\* directly, as the unit tests of the crates do, on inputs that a running
\* process may never feed them.
MaxDim == 2
MaxCoord == 2
MaxBatch == 2

\* Vectors of at most MaxDim components.
RECURSIVE VectorsOfLen(_)
VectorsOfLen(n) ==
    IF n = 0 THEN {<<>>}
    ELSE {Append(v, x) : v \in VectorsOfLen(n - 1), x \in (0 - MaxCoord)..MaxCoord}

FnVectors == UNION {VectorsOfLen(n) : n \in 0..MaxDim}

RECURSIVE BatchesOfLen(_)
BatchesOfLen(n) ==
    IF n = 0 THEN {<<>>}
    ELSE {Append(b, x) : b \in BatchesOfLen(n - 1), x \in {"d1", "doc2"}}

FnBatches == UNION {BatchesOfLen(n) : n \in 0..MaxBatch}

\* Raw records: the name, the kind and the stripped marker present or not.
FnRecords ==
    {RawItem(name, "d1", kind, stripped) :
        name \in {Null, "a", "c"}, kind \in {Null, "module", "function"},
        stripped \in BOOLEAN}
FnPaths == {<<>>, <<"a">>, <<"a", "b">>}
\* An id that is no key of the index.
MissingId == 1 + Cardinality(FnPaths)

\* Raw trees of a crate k with two records besides the root module, each of
\* the three sections present and well-formed or not.
FnTrees ==
    {[ has_index |-> has_index, has_paths |-> has_paths, root |-> root,
       index |-> (0 :> RawItem("k", Null, "module", FALSE) @@ 1 :> r1 @@ 2 :> r2),
       paths |-> (0 :> <<>> @@ 1 :> p1 @@ 2 :> p2) ] :
        has_index \in BOOLEAN, has_paths \in BOOLEAN, root \in {0, NoId, MissingId},
        r1 \in FnRecords, r2 \in FnRecords, p1 \in FnPaths, p2 \in FnPaths}

\* Items of a catalog, as the text builders of the two ingest handlers see them.
FnItems ==
    {MakeDocItem(1, "k", RawItem(name, docs, kind, FALSE), <<>>) :
        name \in {"hello", "bye"}, docs \in {"d1", "doc2"},
        kind \in {"function", "struct"}}

\* One call: the function and its arguments.
IsFnCall(args) ==
    \/ \E v1 \in FnVectors, v2 \in FnVectors :
          args = [fn |-> "cosine_similarity", v1 |-> v1, v2 |-> v2]
    \/ \E b \in FnBatches : args = [fn |-> "embed_batch", sentences |-> b]
    \/ \E tree \in FnTrees : args = [fn |-> "parse_rustdoc_json_file", tree |-> tree]
    \/ \E a \in FnItems, b \in FnItems :
          args = [fn |-> "texts_to_embed", doc_item |-> a, other |-> b]

Return(value) == fn_result' = [done |-> TRUE, value |-> value]

CallCosineSimilarity ==
    /\ fn_args.fn = "cosine_similarity"
    /\ ~fn_result.done
    /\ Return(cosine_similarity(fn_args.v1, fn_args.v2))
    /\ UNCHANGED <<fn_args, app_vars>>

CallEmbedBatch ==
    /\ fn_args.fn = "embed_batch"
    /\ ~fn_result.done
    /\ \E ret \in embed_batch(fn_args.sentences) : Return(ret)
    /\ UNCHANGED <<fn_args, app_vars>>

CallParse ==
    /\ fn_args.fn = "parse_rustdoc_json_file"
    /\ ~fn_result.done
    /\ Return(parse_rustdoc_json_file(fn_args.tree))
    /\ UNCHANGED <<fn_args, app_vars>>

\* The text each ingest handler pushes for doc_item and for `other`.
CallTextsToEmbed ==
    /\ fn_args.fn = "texts_to_embed"
    /\ ~fn_result.done
    /\ Return([s \in Surfaces |-> [doc_item |-> EmbedText(s, fn_args.doc_item),
                                  other |-> EmbedText(s, fn_args.other)]])
    /\ UNCHANGED <<fn_args, app_vars>>

FnInit ==
    /\ GLOBAL_EMBEDDER = "None"
    /\ embedder_lock = NoTask
    /\ processed_projects = EmptyMap
    /\ hash_order = [projects |-> <<>>, embeddings |-> EmptyMap]
    /\ projects_lock = NoTask
    /\ files = [f \in OutputFiles |-> NoFile]
    /\ call = [t \in Tasks |-> IdleFrame]
    /\ serving = FALSE
    /\ calls = MaxCalls
    /\ installs = 0
    /\ init_failed = FALSE
    /\ IsFnCall(fn_args)
    /\ fn_result = Pending

FnNext ==
    \/ CallCosineSimilarity
    \/ CallEmbedBatch
    \/ CallParse
    \/ CallTextsToEmbed

FnSpec == FnInit /\ [][FnNext]_vars

\* ======================================================= properties

InEmbedCall(t) == call[t].pc \in {"i_embedding", "q_embedding"}
WaitsForEmbedder(t) == call[t].pc \in {"init_lock", "i_lock_embedder", "q_lock_embedder"}
IngestPastParse == {"i_lock_embedder", "i_embedding", "i_embedded", "i_lock_store", "i_insert"}
StoreEntry(store, p) == IF p \in DOMAIN store THEN store[p] ELSE NoData
HasEmbeddings(store) == \E p \in DOMAIN store : store[p].embeddings # EmptyMap

\* C1: the entry of a project changes only in the insert step of one ingest
\* call that holds the store guard, and becomes the project_data that call
\* built from its own catalog; at every other step, and so for every reader,
\* the entry is absent or the previous whole index.
C1_AtomicIndex ==
    [][\A p \in DOMAIN processed_projects \cup DOMAIN processed_projects' :
          StoreEntry(processed_projects', p) # StoreEntry(processed_projects, p) =>
            \E t \in Tasks :
               /\ call[t].pc = "i_insert"
               /\ call[t].path = p
               /\ projects_lock = t
               /\ call[t].project_data.crate_docs = call[t].crate_docs
               /\ p \in DOMAIN processed_projects'
               /\ processed_projects'[p] = call[t].project_data]_vars

\* A query scans the store while another call is mid-ingestion of a project
\* whose previous index, with embeddings, is still the one stored.
C1_Witness ==
    \E r \in Tasks, i \in Tasks :
       /\ call[r].pc = "q_scan"
       /\ call[i].pc \in {"i_embedding", "i_embedded", "i_lock_store"}
       /\ call[i].path \in DOMAIN processed_projects
       /\ processed_projects[call[i].path].crate_docs # call[i].crate_docs
       /\ processed_projects[call[i].path].embeddings # EmptyMap

\* C2: an ingest that commits under an identifier already in the store leaves
\* exactly its own catalog and its own embeddings there, and reports their
\* number; nothing of the entry it replaces remains.
C2_LastWriteWins ==
    [][\A t \in Tasks :
          (/\ call[t].pc = "i_insert"
           /\ call'[t].pc = "done"
           /\ call[t].path \in DOMAIN processed_projects) =>
            /\ processed_projects'[call[t].path].crate_docs = call[t].crate_docs
            /\ processed_projects'[call[t].path].embeddings
                  = call[t].project_data.embeddings
            /\ call'[t].result.num_embedded
                  = Cardinality(DOMAIN call[t].project_data.embeddings)]_vars

\* Two ingests of pA have committed, one with embeddings and one without,
\* and the store holds the index without embeddings.
C2_Witness ==
    \E t1 \in Tasks, t2 \in Tasks :
       /\ call[t1].pc = "done" /\ call[t1].op = "ingest" /\ call[t1].result.ok
       /\ call[t2].pc = "done" /\ call[t2].op = "ingest" /\ call[t2].result.ok
       /\ call[t1].result.path = "pA" /\ call[t2].result.path = "pA"
       /\ call[t1].result.num_embedded > 0
       /\ call[t2].result.num_embedded = 0
       /\ processed_projects["pA"].embeddings = EmptyMap

\* C3: the task that holds the store guard is neither in an embedding call
\* nor waiting for or about to take the embedder guard.
C3_NoStoreLockWhileEmbedding ==
    \A t \in Tasks :
       projects_lock = t =>
          /\ ~InEmbedCall(t)
          /\ ~WaitsForEmbedder(t)
          /\ call[t].pc \in {"i_insert", "q_scan"}

\* A reader holds the store guard while another call is inside embed_batch.
C3_Witness ==
    \E r \in Tasks, i \in Tasks :
       /\ projects_lock = r
       /\ call[r].pc = "q_scan"
       /\ call[i].pc = "i_embedding"

\* C4: the embedder guard is held only from the start of an embedding call
\* (or of the construction) to its return.
C4_GuardOnlyWhileEmbedding ==
    \A t \in Tasks :
       embedder_lock = t =>
          call[t].pc \in {"init_new", "i_embedding", "i_embedded",
                          "q_embedding", "q_embedded"}

\* C5: a query filtered to an indexed project that waits for the embedder
\* can go on although an ingest of another project has finished its
\* embedding and has not committed yet.
C5_QueryNotBlockedByOtherIngest ==
    \A q \in Tasks, i \in Tasks :
       (/\ call[q].pc = "q_lock_embedder"
        /\ call[q].path \in DOMAIN processed_projects
        /\ call[i].pc \in {"i_lock_store", "i_insert"}
        /\ call[i].path # call[q].path) =>
          ENABLED QueryLockEmbedder(q)

\* C6: at most one task is inside an embedding call, and it holds the
\* embedder guard.
C6_OneEmbeddingAtATime ==
    /\ Cardinality({t \in Tasks : InEmbedCall(t)}) <= 1
    /\ \A t \in Tasks : InEmbedCall(t) => embedder_lock = t

\* An ingest is inside embed_batch while a query waits for the embedder.
C6_Witness ==
    \E i \in Tasks, q \in Tasks :
       /\ call[i].pc = "i_embedding"
       /\ call[q].pc = "q_lock_embedder"
       /\ GLOBAL_EMBEDDER = "Some"

\* C7: at most one Embedder is ever installed, the provider is Some exactly
\* when one was installed, and Embedder::new() runs only under the embedder
\* guard and only while the provider is None.
C7_SingleInstall ==
    /\ installs <= 1
    /\ (GLOBAL_EMBEDDER = "Some") <=> (installs = 1)
    /\ \A t \in Tasks :
          call[t].pc = "init_new" => embedder_lock = t /\ GLOBAL_EMBEDDER = "None"

\* Two init calls have returned success and one Embedder was installed.
C7_Witness ==
    \E t1 \in Tasks, t2 \in Tasks :
       /\ t1 # t2
       /\ call[t1].pc = "done" /\ call[t1].op = "init" /\ call[t1].result.ok
       /\ call[t2].pc = "done" /\ call[t2].op = "init" /\ call[t2].result.ok
       /\ installs = 1

\* C8: once an initialisation has failed, the provider is not in the state
\* of a provider never initialised, and a query does not fail with the error
\* of a provider never initialised.
C8_InitFailureDistinct ==
    \A t \in Tasks :
       (/\ call[t].pc = "done" /\ call[t].op = "query"
        /\ init_failed /\ installs = 0) =>
          /\ GLOBAL_EMBEDDER # "None"
          /\ call[t].result # NotInitializedError(call[t].surface)

\* C9: an ingest whose catalog was parsed stays on the way to the commit
\* with that catalog, goes on without embeddings when the provider is None
\* or embed_batch failed, and returns only from the insert, with success and
\* with the catalog stored under its path.
C9_IngestSurvivesEmbedding ==
    [][\A t \in Tasks :
          (call[t].op = "ingest" /\ call[t].crate_docs.ok /\ call'[t] # call[t]) =>
            /\ \/ /\ call'[t].pc \in IngestPastParse
                  /\ call'[t].crate_docs = call[t].crate_docs
                  /\ call'[t].path = call[t].path
               \/ /\ call[t].pc = "i_insert"
                  /\ call'[t].pc = "done"
                  /\ call'[t].result.ok
                  /\ call[t].path \in DOMAIN processed_projects'
                  /\ processed_projects'[call[t].path].crate_docs = call[t].crate_docs
            /\ ( \/ (call[t].pc = "i_lock_embedder" /\ GLOBAL_EMBEDDER = "None")
                 \/ (call[t].pc = "i_embedded" /\ ~call[t].ret.ok) ) =>
                  /\ call'[t].pc = "i_lock_store"
                  /\ call'[t].project_data = ProjectData(call[t].crate_docs, EmptyMap)]_vars

\* An ingest returned success with no embedding although the provider is
\* initialised and the catalog it stored has documented items.
C9_Witness ==
    \E t \in Tasks :
       /\ call[t].pc = "done" /\ call[t].op = "ingest" /\ call[t].result.ok
       /\ call[t].result.num_embedded = 0
       /\ GLOBAL_EMBEDDER = "Some"
       /\ call[t].result.path \in DOMAIN processed_projects
       /\ Embeddable(processed_projects[call[t].result.path].crate_docs) # {}
       /\ processed_projects[call[t].result.path].embeddings = EmptyMap

\* C10: a query that finds the provider None, or whose embedding failed,
\* returns at once an error without a result list; a query returns a list
\* only from the scan, with a query embedding in hand.
C10_QueryNeedsEmbedding ==
    [][\A t \in Tasks :
          (call[t].op = "query" /\ call[t].pc # "done" /\ call'[t] # call[t]) =>
            /\ ( \/ (call[t].pc = "q_lock_embedder" /\ GLOBAL_EMBEDDER = "None")
                 \/ (call[t].pc = "q_embedded" /\ ~call[t].ret.ok) ) =>
                  /\ call'[t].pc = "done"
                  /\ ~call'[t].result.ok
                  /\ "items" \notin DOMAIN call'[t].result
            /\ (call'[t].pc = "done" /\ call'[t].result.ok) =>
                  /\ call[t].pc = "q_scan"
                  /\ call[t].query_embedding # <<>>]_vars

\* A query failed on its embedding while the store holds embeddings.
C10_Witness ==
    \E t \in Tasks :
       /\ call[t].pc = "done" /\ call[t].op = "query"
       /\ call[t].result = Err("Failed to embed query")
       /\ HasEmbeddings(processed_projects)

\* The results of a query that returned a list.
QueryDone(t) == call[t].pc = "done" /\ call[t].op = "query" /\ call[t].result.ok

\* C11: in the list a query returned, every earlier result has a score
\* greater than or equal to every later one's.
C11_ScoresNonIncreasing ==
    \A t \in Tasks :
       QueryDone(t) =>
          LET items == call[t].result.items
          IN \A i \in 1..Len(items), j \in 1..Len(items) :
                i < j => items[i].score >= items[j].score

\* A query returned two results of different scores.
C11_Witness ==
    \E t \in Tasks :
       /\ QueryDone(t)
       /\ Len(call[t].result.items) >= 2
       /\ call[t].result.items[1].score > call[t].result.items[2].score

\* Number of embedded items of the projects a filter selects.
RECURSIVE SumEmbedded(_, _)
SumEmbedded(store, ps) ==
    IF ps = {} THEN 0
    ELSE LET p == CHOOSE x \in ps : TRUE
         IN Cardinality(DOMAIN store[p].embeddings) + SumEmbedded(store, ps \ {p})

NumCandidates(store, project_path) ==
    SumEmbedded(store, {p \in DOMAIN store : project_path = Null \/ p = project_path})

\* C12: the scan of a query returns min(k, N) results, k being num_results
\* or 5 when it is absent, N the number of embedded items of the candidates.
C12_ExactlyMinKN ==
    [][\A t \in Tasks :
          (call[t].pc = "q_scan" /\ call'[t].pc = "done") =>
             LET k == IF call[t].num_results = NoNum THEN 5 ELSE call[t].num_results
                 N == NumCandidates(processed_projects, call[t].path)
             IN /\ call'[t].result.ok
                /\ Len(call'[t].result.items) = (IF k < N THEN k ELSE N)]_vars

\* A query with num_results 1 returned one result of the two embedded items
\* of the only project in the store.
C12_Witness ==
    \E t \in Tasks :
       /\ QueryDone(t)
       /\ call[t].num_results = 1
       /\ Len(call[t].result.items) = 1
       /\ DOMAIN processed_projects = {"pA"}
       /\ NumCandidates(processed_projects, call[t].path) = 2

\* The (project, item) pairs a result list names.
ResultPairs(items) ==
    {<<items[i].project_path, items[i].item_full_path>> : i \in 1..Len(items)}

\* The (project, item) pairs with an embedding under a filter.
CandidatePairs(store, project_path) ==
    UNION {{<<p, k>> : k \in DOMAIN store[p].embeddings} :
             p \in {x \in DOMAIN store : project_path = Null \/ x = project_path}}

\* C13: with a filter, every result of the scan carries the filter as its
\* project_path and only that project's embedded items are scored; without
\* a filter the embedded items of all projects are candidates, so that a
\* list shorter than k holds every one of them.
C13_FilterSelectsCandidates ==
    [][\A t \in Tasks :
          (call[t].pc = "q_scan" /\ call'[t].pc = "done") =>
             LET items == call'[t].result.items
                 k == IF call[t].num_results = NoNum THEN 5 ELSE call[t].num_results
                 cand == CandidatePairs(processed_projects, call[t].path)
             IN /\ call[t].path # Null =>
                     \A i \in 1..Len(items) : items[i].project_path = call[t].path
                /\ ResultPairs(items) \subseteq cand
                /\ Len(items) < k => ResultPairs(items) = cand]_vars

\* A query filtered to pA returned pA's items only while pB has embedded
\* items too.
C13_Witness ==
    \E t \in Tasks :
       /\ QueryDone(t)
       /\ call[t].path = "pA"
       /\ Len(call[t].result.items) >= 1
       /\ \A i \in 1..Len(call[t].result.items) :
             call[t].result.items[i].project_path = "pA"
       /\ "pB" \in DOMAIN processed_projects
       /\ processed_projects["pB"].embeddings # EmptyMap

\* C14: a query whose filter names a project the store does not hold, once
\* its embedding has succeeded, goes on to the scan and returns success with
\* an empty list, whatever else the store holds.
C14_UnknownFilterEmptyList ==
    [][\A t \in Tasks :
          (/\ call[t].op = "query"
           /\ call[t].path # Null
           /\ call[t].path \notin DOMAIN processed_projects
           /\ call'[t] # call[t]) =>
             /\ (call[t].pc = "q_embedded" /\ call[t].ret.ok) =>
                   call'[t].pc = "q_lock_store"
             /\ call[t].pc = "q_lock_store" => call'[t].pc = "q_scan"
             /\ call[t].pc = "q_scan" =>
                   /\ call'[t].pc = "done"
                   /\ call'[t].result.ok
                   /\ call'[t].result.items = <<>>]_vars

\* A query filtered to pA, never ingested, returned an empty list while the
\* store holds pB with embedded items.
C14_Witness ==
    \E t \in Tasks :
       /\ QueryDone(t)
       /\ call[t].path = "pA"
       /\ "pA" \notin DOMAIN processed_projects
       /\ call[t].result.items = <<>>
       /\ "pB" \in DOMAIN processed_projects
       /\ processed_projects["pB"].embeddings # EmptyMap

\* The iteration orders the HashMaps of a store of this content can have:
\* any order of the projects outside, any order of each embeddings map.
RECURSIVE InnerOrders(_, _)
InnerOrders(store, ps) ==
    IF ps = {} THEN {EmptyMap}
    ELSE LET p == CHOOSE x \in ps : TRUE
         IN {[q \in DOMAIN rest \cup {p} |-> IF q = p THEN o ELSE rest[q]] :
               o \in Perms(DOMAIN store[p].embeddings),
               rest \in InnerOrders(store, ps \ {p})}

HashOrders(store) ==
    {[projects |-> po, embeddings |-> eo] :
        po \in Perms(DOMAIN store), eo \in InnerOrders(store, DOMAIN store)}

\* C15: the list a scan is about to return is fixed by the query's text,
\* filter and k and by the catalogs and embeddings in the store: it is the
\* same under every iteration order the store's HashMaps can have.
C15_DeterministicOutput ==
    \A t \in Tasks :
       call[t].pc = "q_scan" =>
          \A o \in HashOrders(processed_projects) :
             RankedResults(call[t].surface, processed_projects,
                           call[t].query_embedding, call[t].num_results,
                           ScanPairs(o, call[t].path, o.projects))
             = RankedResults(call[t].surface, processed_projects,
                             call[t].query_embedding, call[t].num_results,
                             ScanPairs(hash_order, call[t].path,
                                       hash_order.projects))

\* The step in which task t runs get_processed_project_list: a call begins,
\* no other task's frame changes, and t's frame changes or no other task has
\* a returned call that the step could have repeated.
ListStep(t) ==
    /\ calls' # calls
    /\ call'[t].op = "list"
    /\ \A u \in Tasks \ {t} : call'[u] = call[u]
    /\ call'[t] # call[t] \/ \A u \in Tasks \ {t} : call[u].pc # "done"

\* C16: the store holds no project before run() serves, loses none at any
\* step, holds a project once its ingest has committed, and the list
\* returns each key of the store once and nothing else.
C16_ListIsCommittedSet ==
    [][/\ ~serving => processed_projects = EmptyMap
       /\ DOMAIN processed_projects \subseteq DOMAIN processed_projects'
       /\ \A t \in Tasks :
            /\ (call[t].pc = "i_insert" /\ call'[t].pc = "done") =>
                  call[t].path \in DOMAIN processed_projects'
            /\ ListStep(t) =>
                  LET keys == call'[t].result.keys
                  IN /\ call'[t].result.ok
                     /\ {keys[i] : i \in 1..Len(keys)} = DOMAIN processed_projects
                     /\ Len(keys) = Cardinality(DOMAIN processed_projects)]_vars

\* A list returned both projects after their ingests committed, one of them
\* without embeddings.
C16_Witness ==
    \E t \in Tasks :
       /\ call[t].pc = "done" /\ call[t].op = "list"
       /\ Len(call[t].result.keys) = 2
       /\ \E p \in DOMAIN processed_projects :
             processed_projects[p].embeddings = EmptyMap

\* An ingest that task t ran on `surface` has returned success.
IngestDone(t, surface) ==
    /\ call[t].pc = "done" /\ call[t].op = "ingest"
    /\ call[t].surface = surface /\ call[t].result.ok

\* The step in which task u runs get_raw_documentation, told from the steps
\* of the other tasks as in ListStep.
GetRawStep(u) ==
    /\ calls' # calls
    /\ call'[u].op = "get_raw"
    /\ \A v \in Tasks \ {u} : call'[v] = call[v]
    /\ call'[u] # call[u] \/ \A v \in Tasks \ {u} : call[v].pc # "done"

\* C17: a project an ingest committed on one surface is in the one store
\* and is seen from the other surface: a command-side list names a project
\* the MCP tool ingested, the MCP lookup finds a project a command ingested,
\* and a query on either surface returns the embedded items of a project
\* ingested on the other.
C17_OneSharedStore ==
    [][\A t \in Tasks, u \in Tasks, s \in Surfaces :
          (u # t /\ IngestDone(t, s)) =>
             LET p == call[t].result.path
             IN /\ p \in DOMAIN processed_projects
                /\ (ListStep(u) /\ s = "mcp") =>
                      \E i \in 1..Len(call'[u].result.keys) :
                         call'[u].result.keys[i] = p
                /\ (GetRawStep(u) /\ s = "cmd" /\ call'[u].path = p) =>
                      call'[u].result
                         # Err("Project has not been processed or was not found.")
                /\ (/\ call[u].pc = "q_scan" /\ call'[u].pc = "done"
                    /\ call[u].surface # s
                    /\ call[u].path \in {Null, p}
                    /\ call[u].num_results = NoNum
                    /\ processed_projects[p].embeddings # EmptyMap) =>
                      \E i \in 1..Len(call'[u].result.items) :
                         call'[u].result.items[i].project_path = p]_vars

\* A command-side query returned an item of the project that the MCP tool
\* ingested.
C17_Witness ==
    \E t \in Tasks, u \in Tasks :
       /\ IngestDone(t, "mcp")
       /\ QueryDone(u) /\ call[u].surface = "cmd"
       /\ \E i \in 1..Len(call[u].result.items) :
             call[u].result.items[i].project_path = call[t].result.path

\* A call of each operation that arrives on `surface`.
IngestOn(surface) == \E t \in Tasks : StartIngest(t) /\ call'[t].surface = surface
QueryOn(surface) == \E t \in Tasks : StartQuery(t) /\ call'[t].surface = surface
ListOn(surface) == \E t \in Tasks : ListProjects(t) /\ call'[t].surface = surface

\* C18: whenever the process serves, a caller is free and no guard is held,
\* an ingest, a query and a list of the projects can be called on each of
\* the two surfaces.
C18_EverySurfaceOffersAll ==
    (/\ serving /\ calls > 0
     /\ projects_lock = NoTask /\ embedder_lock = NoTask
     /\ \E t \in Tasks : call[t].pc \in {"idle", "done"}) =>
       \A surface \in Surfaces :
          /\ ENABLED IngestOn(surface)
          /\ ENABLED QueryOn(surface)
          /\ ENABLED ListOn(surface)

\* C19: every key of a stored embeddings map is a key of the items map of
\* the same Project Index.
C19_EmbeddingsHaveItems ==
    \A p \in DOMAIN processed_projects :
       DOMAIN processed_projects[p].embeddings
          \subseteq DOMAIN processed_projects[p].crate_docs.items

\* A stored index has embeddings for some of its items and not for all.
C19_Witness ==
    \E p \in DOMAIN processed_projects :
       /\ processed_projects[p].embeddings # EmptyMap
       /\ DOMAIN processed_projects[p].embeddings
             # DOMAIN processed_projects[p].crate_docs.items

\* C20: an ingest enters embed_batch only from the point where it took the
\* embedder guard, and does so exactly when the provider is Some and an item
\* has a non-blank description, with one text for each such item; otherwise
\* it goes on without a call; once embed_batch has returned, failed or not,
\* the ingest goes on to build its ProjectData and never calls it again.
C20_OneBatchPerIngest ==
    [][\A t \in Tasks :
          (call[t].op = "ingest" /\ call'[t] # call[t]) =>
             LET selected == Embeddable(call[t].crate_docs)
                 wanted == GLOBAL_EMBEDDER = "Some" /\ selected # {}
             IN /\ (call'[t].pc = "i_embedding") =>
                      /\ call[t].pc = "i_lock_embedder"
                      /\ wanted
                      /\ Len(call'[t].texts) = Cardinality(selected)
                      /\ {call'[t].item_paths[i] : i \in 1..Len(call'[t].item_paths)}
                            = selected
                /\ (call[t].pc = "i_lock_embedder" /\ wanted) =>
                      call'[t].pc = "i_embedding"
                /\ (call[t].pc = "i_lock_embedder" /\ ~wanted) =>
                      call'[t].pc = "i_lock_store"
                /\ call[t].pc = "i_embedding" => call'[t].pc = "i_embedded"
                /\ call[t].pc = "i_embedded" => call'[t].pc = "i_lock_store"]_vars

\* embed_batch has failed on a batch of two texts.
C20_Witness ==
    \E t \in Tasks :
       /\ call[t].op = "ingest"
       /\ call[t].pc = "i_embedded"
       /\ ~call[t].ret.ok
       /\ Len(call[t].texts) = 2

\* A library function has been called on its own and has returned.
FnDone(name) == fn_args.fn = name /\ fn_result.done

\* Two catalog items that differ in their kind and in nothing else.
DiffersOnlyInKind(a, b) ==
    a.item_type # b.item_type /\ [a EXCEPT !.item_type = b.item_type] = b

\* C21: the text embedded for an item is one function of crate name, item
\* name, kind and description on both ingest surfaces: the command handler
\* and the MCP handler build the same text for the same item, and on either
\* surface two items that differ only in kind get different texts.
C21_OneTextFunction ==
    FnDone("texts_to_embed") =>
        /\ fn_result.value["cmd"].doc_item = fn_result.value["mcp"].doc_item
        /\ \A s \in Surfaces :
              DiffersOnlyInKind(fn_args.doc_item, fn_args.other) =>
                 fn_result.value[s].doc_item # fn_result.value[s].other

\* The length of every vector the model produces.
EmbeddingDim == Len(ModelVector(""))

\* C22: embed_batch on n texts returns an error and no vectors, or exactly n
\* vectors of the model's dimension, the i-th being the vector of the i-th
\* text; on the empty batch it returns the empty list and no error.
C22_EmbedBatchContract ==
    FnDone("embed_batch") =>
        LET sentences == fn_args.sentences
            ret == fn_result.value
        IN /\ ~ret.ok => ret.vectors = <<>>
           /\ ret.ok =>
                /\ Len(ret.vectors) = Len(sentences)
                /\ \A i \in 1..Len(sentences) :
                      /\ Len(ret.vectors[i]) = EmbeddingDim
                      /\ ret.vectors[i] = ModelVector(sentences[i])
           /\ Len(sentences) = 0 => ret.ok /\ ret.vectors = <<>>

\* A batch of two different texts has been embedded.
C22_Witness ==
    /\ FnDone("embed_batch")
    /\ fn_result.value.ok
    /\ Len(fn_args.sentences) = MaxBatch
    /\ fn_args.sentences[1] # fn_args.sentences[MaxBatch]
    /\ fn_result.value.vectors[1] # fn_result.value.vectors[MaxBatch]

ZeroNorm(v) == \A i \in 1..Len(v) : v[i] = 0

\* A pair for which the similarity is defined as 0.
Degenerate(v1, v2) ==
    \/ Len(v1) = 0
    \/ Len(v2) = 0
    \/ Len(v1) # Len(v2)
    \/ ZeroNorm(v1)
    \/ ZeroNorm(v2)

\* C23: cosine_similarity returns exactly 0.0 for every pair in which a
\* vector is empty, the lengths differ or a vector has zero norm.
C23_DegenerateIsZero ==
    (FnDone("cosine_similarity") /\ Degenerate(fn_args.v1, fn_args.v2)) =>
        fn_result.value = 0

\* Two vectors of different lengths, neither empty and neither of zero norm,
\* have been compared.
C23_Witness ==
    /\ FnDone("cosine_similarity")
    /\ Len(fn_args.v1) > 0
    /\ Len(fn_args.v2) > Len(fn_args.v1)
    /\ ~ZeroNorm(fn_args.v1)
    /\ Dot(fn_args.v1, fn_args.v2) # 0
    /\ fn_result.value = 0

\* The result of the call with the two arguments exchanged.
Exchanged == cosine_similarity(fn_args.v2, fn_args.v1)

\* C24: cosine_similarity(v1, v2) equals cosine_similarity(v2, v1) for all
\* pairs, and for a pair that is not degenerate the value lies in [-1, 1].
C24_SymmetricAndBounded ==
    FnDone("cosine_similarity") =>
        /\ fn_result.value = Exchanged
        /\ ~Degenerate(fn_args.v1, fn_args.v2) =>
              (0 - One <= fn_result.value /\ fn_result.value <= One)

\* The symmetry alone.
C24_Symmetric ==
    FnDone("cosine_similarity") => fn_result.value = Exchanged

\* A raw tree that lacks one of the three sections, has one of the wrong
\* JSON type, or names a root that the index does not hold.
Malformed(tree) ==
    \/ ~tree.has_index
    \/ ~tree.has_paths
    \/ tree.root = NoId
    \/ tree.root \notin DOMAIN tree.index

\* C25: parse_rustdoc_json_file returns an error and no catalog whenever
\* `index`, `paths` or `root` is absent or malformed, or the root id is not
\* a key of the index.
C25_MalformedTreeIsError ==
    (FnDone("parse_rustdoc_json_file") /\ Malformed(fn_args.tree)) =>
        /\ ~fn_result.value.ok
        /\ "items" \notin DOMAIN fn_result.value

\* A tree with all three sections whose root id is no key of the index has
\* been parsed.
C25_Witness ==
    /\ FnDone("parse_rustdoc_json_file")
    /\ fn_args.tree.has_index
    /\ fn_args.tree.has_paths
    /\ fn_args.tree.root = MissingId
    /\ \E id \in DOMAIN fn_args.tree.index : fn_args.tree.index[id].name # Null
    /\ ~fn_result.value.ok

\* A parse call that has returned a catalog.
Parsed == FnDone("parse_rustdoc_json_file") /\ fn_result.value.ok

\* The records of the parsed tree that have a string name.
NamedIds == {id \in DOMAIN fn_args.tree.index : fn_args.tree.index[id].name # Null}

\* s1::s2::...::sn, each segment preceded by the separator.
RECURSIVE Segments(_)
Segments(p) == IF Len(p) = 0 THEN "" ELSE "::" \o Head(p) \o Segments(Tail(p))

\* The full path the catalog is to hold for record id: crate, module path,
\* name; a module whose path ends in its own name is not named twice.
ExpectedFullPath(id) ==
    LET raw == fn_args.tree.index[id]
        p == fn_args.tree.paths[id]
    IN IF raw.kind = "module" /\ Len(p) > 0 /\ p[Len(p)] = raw.name
       THEN fn_result.value.crate_name \o Segments(p)
       ELSE fn_result.value.crate_name \o Segments(p) \o "::" \o raw.name

\* No record that the parser visits after id has the full path of id.
LastOfItsPath(id) ==
    \A other \in NamedIds :
        other > id => ExpectedFullPath(other) # ExpectedFullPath(id)

C27_ModuleNotNamedTwice ==
    Parsed =>
        \A id \in NamedIds :
            LET raw == fn_args.tree.index[id]
                p == fn_args.tree.paths[id]
                c == fn_result.value.crate_name
                ends_in_name == Len(p) > 0 /\ p[Len(p)] = raw.name
                key == IF ends_in_name THEN c \o Segments(p)
                       ELSE c \o Segments(p) \o "::" \o raw.name
                items == fn_result.value.items
            IN raw.kind = "module" =>
                  /\ key \in DOMAIN items
                  /\ items[key].full_path_str = key
                  /\ LastOfItsPath(id) =>
                        /\ items[key].id = id
                        /\ items[key].item_type = "module"
                        /\ items[key].name = raw.name

\* The module a of path [a] is stored as k::a, the module c of path [a, b]
\* as k::a::b::c, and the root module k of the empty path as k::k.
C27_Witness ==
    /\ Parsed
    /\ fn_args.tree.index[1] = RawItem("a", "d1", "module", FALSE)
    /\ fn_args.tree.paths[1] = <<"a">>
    /\ fn_args.tree.index[2] = RawItem("c", "d1", "module", FALSE)
    /\ fn_args.tree.paths[2] = <<"a", "b">>
    /\ DOMAIN fn_result.value.items = {"k::k", "k::a", "k::a::b::c"}
    /\ fn_result.value.items["k::a"].id = 1
    /\ fn_result.value.items["k::a::b::c"].id = 2

\* The ids of the records the catalog's Items were made from.
CatalogIds == {fn_result.value.items[k].id : k \in DOMAIN fn_result.value.items}

\* C28: no record without a string name appears in the catalog: every Item
\* comes from a record of the index that has a name, and carries that name.
C28_UnnamedDropped ==
    Parsed =>
        /\ CatalogIds \subseteq NamedIds
        /\ \A k \in DOMAIN fn_result.value.items :
              LET item == fn_result.value.items[k]
              IN /\ item.name # Null
                 /\ item.name = fn_args.tree.index[item.id].name

\* A tree with an unnamed and a named record besides the root has been
\* parsed; the catalog holds the root and the named record.
C28_Witness ==
    /\ Parsed
    /\ fn_args.tree.index[1].name = Null
    /\ fn_args.tree.index[2].name = "c"
    /\ CatalogIds = {0, 2}

\* The tree with every stripped marker taken away.
Unstripped(tree) ==
    [tree EXCEPT !.index =
        [id \in DOMAIN tree.index |-> [tree.index[id] EXCEPT !.is_stripped = FALSE]]]

Described(crate_docs) ==
    {k \in DOMAIN crate_docs.items :
        LET desc == crate_docs.items[k].description
        IN desc # Null /\ desc # "" /\ desc # " "}

\* C30: the embeddings map of every stored Project Index is all or nothing:
\* it is empty, or its keys are exactly the items with a present, non-blank
\* description, each mapped to the vector of the text one of the ingest
\* surfaces builds for that item; never a non-empty part of them.
C30_EmbeddingsAllOrNothing ==
    \A p \in DOMAIN processed_projects :
        LET data == processed_projects[p]
        IN \/ data.embeddings = EmptyMap
           \/ /\ DOMAIN data.embeddings = Described(data.crate_docs)
              /\ \E s \in Surfaces :
                    \A k \in DOMAIN data.embeddings :
                       data.embeddings[k]
                          = ModelVector(EmbedText(s, data.crate_docs.items[k]))

\* A stored index embeds its two described items and leaves out the item
\* without a description, while another stored index has no embeddings.
C30_Witness ==
    /\ \E p \in DOMAIN processed_projects :
          /\ Cardinality(DOMAIN processed_projects[p].embeddings) = 2
          /\ \E k \in DOMAIN processed_projects[p].crate_docs.items :
                processed_projects[p].crate_docs.items[k].description = Null
    /\ \E p \in DOMAIN processed_projects :
          processed_projects[p].embeddings = EmptyMap

\* The similarity of a query vector and the stored vector of one item.
StoredScore(store, query_embedding, pair) ==
    cosine_similarity(query_embedding, store[pair[1]].embeddings[pair[2]])

\* C31: every result of the scan carries the cosine similarity of the query
\* embedding and the embedding stored for that item in that project, and no
\* embedded item of a candidate project that the list leaves out has a
\* score strictly greater than a returned one.
C31_TopKByCosine ==
    [][\A t \in Tasks :
          (call[t].pc = "q_scan" /\ call'[t].pc = "done") =>
             LET items == call'[t].result.items
                 cand == CandidatePairs(processed_projects, call[t].path)
             IN /\ \A i \in 1..Len(items) :
                      items[i].score =
                         StoredScore(processed_projects, call[t].query_embedding,
                                     <<items[i].project_path, items[i].item_full_path>>)
                /\ \A pair \in cand \ ResultPairs(items) :
                      \A i \in 1..Len(items) :
                         StoredScore(processed_projects, call[t].query_embedding, pair)
                            <= items[i].score]_vars

\* A query for one result returned the better of two embedded items: the
\* store still holds the item it returned, at the score it returned, and an
\* item of a strictly lower score that it left out.
C31_Witness ==
    \E t \in Tasks :
       /\ QueryDone(t)
       /\ Len(call[t].result.items) = 1
       /\ LET item == call[t].result.items[1]
              got == <<item.project_path, item.item_full_path>>
              cand == CandidatePairs(processed_projects, call[t].path)
          IN /\ got \in cand
             /\ StoredScore(processed_projects, ModelVector(call[t].query), got)
                   = item.score
             /\ \E pair \in cand \ {got} :
                   StoredScore(processed_projects, ModelVector(call[t].query), pair)
                      < item.score

\* Task t takes the step in which its ingest call returns an error.
IngestFails(t) ==
    /\ call'[t] # call[t]
    /\ call'[t].op = "ingest"
    /\ call'[t].pc = "done"
    /\ ~call'[t].result.ok

\* C32: an ingest call whose path is no directory, whose documentation
\* extraction fails or whose raw tree does not parse returns an error; it
\* returns it before it has taken the embedder guard, so without an
\* embedding call, and the step leaves the store, the provider and both
\* guards as they were.
C32_FailedIngestChangesNothing ==
    [][\A t \in Tasks :
          /\ IngestFails(t) =>
                /\ call[t].pc \in {"idle", "done", "i_parse"}
                /\ call[t].pc = "i_parse" => call[t].texts = <<>>
                /\ "error" \in DOMAIN call'[t].result
                /\ processed_projects' = processed_projects
                /\ hash_order' = hash_order
                /\ GLOBAL_EMBEDDER' = GLOBAL_EMBEDDER
                /\ embedder_lock' = embedder_lock
                /\ projects_lock' = projects_lock
          /\ (call'[t] # call[t] /\ call'[t].op = "ingest"
                /\ call[t].pc \in {"idle", "done"}
                /\ call'[t].path \notin Projects) => IngestFails(t)
          /\ (call'[t] # call[t] /\ call[t].pc = "i_parse"
                /\ Malformed(files[call[t].json_path])) => IngestFails(t)]_vars

\* An ingest of pB has failed on a tree that does not parse while the store
\* holds an index of pB committed by an earlier call.
C32_Witness ==
    \E t \in Tasks :
       /\ call[t].op = "ingest"
       /\ call[t].pc = "done"
       /\ call[t].path = "pB"
       /\ call[t].result = Err("Failed to parse rustdoc JSON")
       /\ "pB" \in DOMAIN processed_projects


\* C33: full_path identifies an item within a catalog: two distinct named
\* records of one tree never have the same full path, so the catalog holds
\* one Item for each named record and has as many Items as the tree has
\* named records.
C33_FullPathUnique ==
    Parsed =>
        /\ \A id \in NamedIds : \A other \in NamedIds \ {id} :
              ExpectedFullPath(other) # ExpectedFullPath(id)
        /\ CatalogIds = NamedIds
        /\ Cardinality(DOMAIN fn_result.value.items) = Cardinality(NamedIds)


\* A call of task t has begun and has not returned.
InProgress(t) == call[t].pc \notin {"idle", "done"}

EmbedToCommit(t) ==
    call[t].pc \in {"i_embedding", "i_embedded", "i_lock_store", "i_insert"}

\* C35: an ingest holds the embedder guard from before its embedding until
\* after its insert, on either surface; so no two ingest calls are in their
\* embed-to-commit sections at once, and a call that took the guard later
\* commits later.
C35_IngestSectionsSerial ==
    \A t \in Tasks :
       EmbedToCommit(t) =>
          /\ embedder_lock = t
          /\ \A u \in Tasks \ {t} : ~EmbedToCommit(u)

\* One ingest is about to insert, holding the embedder guard, while an ingest
\* on the other surface has parsed its tree and waits for that guard.
C35_Witness ==
    \E t \in Tasks, u \in Tasks :
       /\ call[t].pc = "i_insert"
       /\ embedder_lock = t
       /\ call[u].pc = "i_lock_embedder"
       /\ call[u].surface # call[t].surface


\* C36: the catalog an ingest commits under identifier P is the one parsed
\* from the raw tree that this call generated for P, also when ingests of
\* projects whose crates have the same name run concurrently; so every
\* catalog in the store is parsed from a tree generated for its identifier.
C36_CommitsOwnTree ==
    \A p \in DOMAIN processed_projects :
       \E tree \in ProjectTrees(p) :
          processed_projects[p].crate_docs = parse_rustdoc_json_file(tree)


\* Task t takes a step of a query, list or raw-documentation call.
ReadStep(t) ==
    /\ call'[t] # call[t]
    /\ call'[t].op \in {"query", "list", "get_raw"}

\* C37: query, list and raw-documentation lookup are read-only: every step
\* of such a call, whether the call succeeds or fails, leaves the store (its
\* identifiers, every Project Index and their iteration order) and the
\* provider as they were.
C37_ReadOnlyCalls ==
    [][\A t \in Tasks :
          ReadStep(t) =>
             /\ processed_projects' = processed_projects
             /\ hash_order' = hash_order
             /\ GLOBAL_EMBEDDER' = GLOBAL_EMBEDDER
             /\ installs' = installs]_vars

\* A query has returned items and a raw-documentation lookup has failed, and
\* the store still holds the index of pA they read.
C37_Witness ==
    \E t \in Tasks, u \in Tasks :
       /\ QueryDone(t)
       /\ Len(call[t].result.items) > 0
       /\ call[u].pc = "done"
       /\ call[u].op = "get_raw"
       /\ ~call[u].result.ok
       /\ "pA" \in DOMAIN processed_projects
       /\ GLOBAL_EMBEDDER = "Some"


\* C38: the insert of an ingest for identifier P changes only P's entry: the
\* store's identifiers are the old ones and the string P as given, the
\* Project Index and the iteration order under every other identifier are
\* unchanged (another string is another entry), and the provider is
\* unchanged.
C38_CommitChangesOnlyP ==
    [][\A t \in Tasks :
          (call[t].pc = "i_insert" /\ call'[t].pc = "done") =>
             /\ DOMAIN processed_projects' =
                   DOMAIN processed_projects \cup {call[t].path}
             /\ processed_projects'[call[t].path] = call[t].project_data
             /\ \A other \in DOMAIN processed_projects \ {call[t].path} :
                   /\ processed_projects'[other] = processed_projects[other]
                   /\ hash_order'.embeddings[other] = hash_order.embeddings[other]
             /\ GLOBAL_EMBEDDER' = GLOBAL_EMBEDDER
             /\ installs' = installs]_vars

\* An ingest of pB has committed into a store that holds an index of pA with
\* embeddings, and both are there.
C38_Witness ==
    \E t \in Tasks :
       /\ call[t].pc = "done"
       /\ call[t].op = "ingest"
       /\ call[t].result.ok
       /\ call[t].path = "pB"
       /\ DOMAIN processed_projects = {"pA", "pB"}
       /\ processed_projects["pA"].embeddings # EmptyMap

====
